---- MODULE Spec2Model ----
(***************************************************************************)
(* NcbiTaxonomy (NcbiTaxonomy.cpp): the taxon store, the Euler tour, the   *)
(* sparse-table RMQ, the LCA queries, lineage strings, clade counts and    *)
(* the weighted-majority LCA.                                              *)
(*                                                                         *)
(* C++ arrays are 0-based; a TLA+ sequence s holds array element i at      *)
(* s[i + 1].  The external-id table D is a function on 0..maxTaxID.        *)
(* A read or write of D outside 0..maxTaxID is undefined behaviour: the    *)
(* flag oob records it, a read yields `garbage' (any table value the heap  *)
(* may hold) unless a write went to the same place before (spill).         *)
(***************************************************************************)
EXTENDS Integers, Sequences, FiniteSets, TLC

\* ---------------------------------------------------------------- bounds
\* External ids of the nodes input are drawn from 1..MaxTaxId.
MaxTaxId == 3
\* Rows of the merged input.
MaxMerged == 1
\* Rows of the names input.
MaxNames == 2
\* Hits of one weightedMajorityLCA call, entries of one getCladeCounts map.
MaxHits == 2

\* ------------------------------------------------------ program constants
NULL == -1
ROOT_TAXID == 1
ROOT_RANK == 2147483647

VARIABLES
    nodesFile,   \* rows (taxId, parentTaxId, rank) of nodes.dmp, in file order
    mergedFile,  \* rows (old, new) of merged.dmp
    namesFile,   \* rows (taxId, name, class) of names.dmp
    garbage,     \* what a read outside the table D finds
    phase,       \* "Uninitialized" | "Indexed" | "Failed" (EXIT) | "Exited"
    taxonNodes,  \* std::vector<TaxonNode>
    D,           \* std::vector<int>: external id -> internal index or -1
    spill,       \* writes that went outside D
    oob,         \* TRUE once D was read or written outside 0..maxTaxID
    E, L, H,     \* Euler tour, its depths, first occurrence per internal index
    M,           \* sparse table M[i][j]
    ret          \* the last public call: [op, args, val]

vars == <<nodesFile, mergedFile, namesFile, garbage, phase, taxonNodes, D,
          spill, oob, E, L, H, M, ret>>

\* ----------------------------------------------------------- small helpers
Max(S) == CHOOSE x \in S : \A y \in S : y <= x

Range(s) == {s[i] : i \in DOMAIN s}

RECURSIVE Pow2(_)
Pow2(k) == IF k = 0 THEN 1 ELSE 2 * Pow2(k - 1)

ipow(b, k) == Pow2(k)

RECURSIVE flog2(_)
flog2(n) == IF n <= 1 THEN 0 ELSE 1 + flog2(n \div 2)

RECURSIVE Fill(_, _)
Fill(n, x) == IF n <= 0 THEN <<>> ELSE Append(Fill(n - 1, x), x)


\* --------------------------------------------------------------- rank map
RankNames == {"no rank", "species", "genus"}

NcbiRanks == [species |-> 4, genus |-> 8, superkingdom |-> 27]

findRankIndex(rank) ==
    IF rank \in DOMAIN NcbiRanks THEN NcbiRanks[rank] ELSE -1

\* ------------------------------------------------- the external-id table
\* `t' is the object: [taxonNodes, D, spill, garbage, E, L, H, M].
InTable(t, taxonId) == taxonId \in DOMAIN t.D

DAt(t, taxonId) ==
    IF InTable(t, taxonId) THEN t.D[taxonId]
    ELSE IF taxonId \in DOMAIN t.spill THEN t.spill[taxonId]
    ELSE t.garbage

nodeExists(t, taxonId) == DAt(t, taxonId) # -1

\* nodeId: EXIT when the id is negative or absent; callers test Exits first.
nodeIdExits(t, taxonId) == taxonId < 0 \/ ~nodeExists(t, taxonId)

nodeId(t, taxonId) == DAt(t, taxonId)

\* A pointer to taxonNodes[i] is the internal index i; NULL is -1.
taxonNode(t, taxonId, fail) ==
    IF taxonId = 0 \/ (~fail /\ ~nodeExists(t, taxonId)) THEN NULL
    ELSE nodeId(t, taxonId)

taxonNodeExits(t, taxonId, fail) ==
    ~(taxonId = 0 \/ (~fail /\ ~nodeExists(t, taxonId)))
    /\ nodeIdExits(t, taxonId)

Node(t, i) == t.taxonNodes[i + 1]

\* ------------------------------------------------------------- loadNodes
FirstIndex(file, taxId) ==
    CHOOSE i \in 1..Len(file) :
        /\ file[i].taxId = taxId
        /\ \A j \in 1..(i - 1) : file[j].taxId # taxId

loadNodes(file, g) ==
    LET nodes == [i \in 1..Len(file) |->
                    [id |-> i - 1, taxId |-> file[i].taxId,
                     parentTaxId |-> file[i].parentTaxId,
                     rank |-> file[i].rank, name |-> ""]]
        maxTaxID == Max({0} \cup {file[i].taxId : i \in 1..Len(file)})
        d == [x \in 0..maxTaxID |->
                IF \E i \in 1..Len(file) : file[i].taxId = x
                THEN FirstIndex(file, x) - 1 ELSE -1]
        t == [taxonNodes |-> nodes, D |-> d, spill |-> <<>>, garbage |-> g]
    IN  [t |-> t,
         oob |-> \E i \in 1..Len(file) : ~InTable(t, file[i].parentTaxId),
         exit |-> \E i \in 1..Len(file) : ~nodeExists(t, file[i].parentTaxId)]

\* ------------------------------------------------------------ loadMerged
\* One row: if (!nodeExists(oldId) && nodeExists(mergedId)) D[oldId] = D[mergedId].
mergeRow(s, row) ==
    LET t == s.t
        oldAbsent == ~nodeExists(t, row.old)
        install == oldAbsent /\ nodeExists(t, row.new)
        touched == ~InTable(t, row.old) \/ (oldAbsent /\ ~InTable(t, row.new))
        v == DAt(t, row.new)
    IN  [t |-> IF ~install THEN t
               ELSE IF InTable(t, row.old)
                    THEN [t EXCEPT !.D = [@ EXCEPT ![row.old] = v]]
                    ELSE [t EXCEPT !.spill =
                            [x \in DOMAIN @ \cup {row.old} |->
                                IF x = row.old THEN v ELSE @[x]]],
         oob |-> s.oob \/ touched,
         exit |-> s.exit]

RECURSIVE loadMerged(_, _)
loadMerged(rows, s) ==
    IF rows = <<>> THEN s ELSE loadMerged(Tail(rows), mergeRow(s, rows[1]))

\* ------------------------------------------------------------- loadNames
IsScientific(row) == row.class = "scientific name"

\* The row is applied only while no name is stored: the first one wins.
nameRowMut(s, row) ==
    LET t == s.t IN
    IF s.exit \/ ~IsScientific(row) THEN s
    ELSE IF ~nodeExists(t, row.taxId) THEN [s EXCEPT !.exit = TRUE]
    ELSE IF t.taxonNodes[nodeId(t, row.taxId) + 1].name # "" THEN s
    ELSE [s EXCEPT !.t.taxonNodes[nodeId(t, row.taxId) + 1].name = row.name]

nameRow(s, row) ==
    LET t == s.t IN
    IF s.exit \/ ~IsScientific(row) THEN s
    ELSE IF ~nodeExists(t, row.taxId)
         THEN [s EXCEPT !.exit = TRUE,
                        !.oob = @ \/ ~InTable(t, row.taxId)]
         ELSE [s EXCEPT !.t.taxonNodes[nodeId(t, row.taxId) + 1].name = row.name,
                        !.oob = @ \/ ~InTable(t, row.taxId)]

RECURSIVE loadNames(_, _)
loadNames(rows, s) ==
    IF rows = <<>> THEN s ELSE loadNames(Tail(rows), nameRow(s, rows[1]))

\* ------------------------------------------------------------ Euler tour
\* children[id]: the external ids of the children of internal index id, in
\* file order (constructor, lines 49-54).
childrenOf(t) ==
    [id \in 0..(Len(t.taxonNodes) - 1) |->
        LET pick(n) == n.parentTaxId # n.taxId /\ nodeId(t, n.parentTaxId) = id
            kids == SelectSeq(t.taxonNodes, pick)
        IN  [k \in 1..Len(kids) |-> kids[k].taxId]]

RECURSIVE elh(_, _, _, _, _), elhChildren(_, _, _, _, _)
elhChildren(t, children, kids, level, s) ==
    IF kids = <<>> THEN s
    ELSE elhChildren(t, children, Tail(kids), level,
                     elh(t, children, kids[1], level + 1, s))

\* elh that stores the node's own level at the return entry.
elhMut(t, children, taxId, level, s) ==
    LET id == nodeId(t, taxId)
        h1 == IF s.H[id + 1] = 0 THEN [s.H EXCEPT ![id + 1] = Len(s.E)] ELSE s.H
        s1 == [E |-> Append(s.E, id), L |-> Append(s.L, level), H |-> h1]
        s2 == elhChildren(t, children, children[id], level, s1)
    IN  [E |-> Append(s2.E, nodeId(t, Node(t, id).parentTaxId)),
         L |-> Append(s2.L, level),
         H |-> s2.H]

elh(t, children, taxId, level, s) ==
    LET id == nodeId(t, taxId)
        h1 == IF s.H[id + 1] = 0 THEN [s.H EXCEPT ![id + 1] = Len(s.E)] ELSE s.H
        s1 == [E |-> Append(s.E, id), L |-> Append(s.L, level), H |-> h1]
        s2 == elhChildren(t, children, children[id], level, s1)
    IN  [E |-> Append(s2.E, nodeId(t, Node(t, id).parentTaxId)),
         L |-> Append(s2.L, level - 1),
         H |-> s2.H]

\* E.resize(maxNodes * 2, 0)
resize(s, n) ==
    IF Len(s) >= n THEN SubSeq(s, 1, n) ELSE s \o Fill(n - Len(s), 0)

\* -------------------------------------------------------------------- RMQ
\* M[i][j] is m[i][j], i in 0..2N-1, j in 0..flog2(2N); makeMatrix zeroes it.
makeMatrix(maxNodes) ==
    [i \in 0..(maxNodes * 2 - 1) |-> [j \in 0..flog2(maxNodes * 2) |-> 0]]

rmqLess(depths, A, B) == depths[A + 1] < depths[B + 1]

RECURSIVE rmqLevels(_, _, _, _)
rmqLevels(depths, m, j, dim) ==
    IF Pow2(j) > dim THEN m
    ELSE rmqLevels(depths,
            [i \in 0..(dim - 1) |->
                IF i + Pow2(j) - 1 < dim
                THEN LET A == m[i][j - 1]
                         B == m[i + Pow2(j - 1)][j - 1]
                     IN  [m[i] EXCEPT ![j] = IF rmqLess(depths, A, B) THEN A ELSE B]
                ELSE m[i]],
            j + 1, dim)

InitRangeMinimumQuery(depths, maxNodes) ==
    LET m0 == [i \in 0..(maxNodes * 2 - 1) |->
                  [makeMatrix(maxNodes)[i] EXCEPT ![0] = i]]
    IN  rmqLevels(depths, m0, 1, maxNodes * 2)

\* RangeMinimumQuery with the comparison turned round.
RangeMinimumQueryMut(t, i, j) ==
    LET k == flog2(j - i + 1)
        A == t.M[i][k]
        B == t.M[j - ipow(2, k) + 1][k]
    IN  IF t.L[A + 1] >= t.L[B + 1] THEN A ELSE B

RangeMinimumQuery(t, i, j) ==
    LET k == flog2(j - i + 1)
        A == t.M[i][k]
        B == t.M[j - ipow(2, k) + 1][k]
    IN  IF t.L[A + 1] <= t.L[B + 1] THEN A ELSE B

lcaHelper(t, i, j) ==
    IF i = 0 \/ j = 0 THEN 0
    ELSE IF i = j THEN i
    ELSE LET h1 == t.H[i + 1]
             h2 == t.H[j + 1]
             v1 == IF h1 > h2 THEN h2 ELSE h1
             v2 == IF h1 > h2 THEN h1 ELSE h2
         IN  t.E[RangeMinimumQuery(t, v1, v2) + 1]

\* IsAncestor with the result compared to the child's index.
IsAncestorMut(t, ancestor, child) ==
    IF ancestor = child THEN TRUE
    ELSE IF ancestor = 0 \/ child = 0 THEN FALSE
    ELSE IF ~nodeExists(t, child) THEN FALSE
    ELSE IF ~nodeExists(t, ancestor) THEN FALSE
    ELSE lcaHelper(t, nodeId(t, child), nodeId(t, ancestor)) = nodeId(t, child)

\* bool IsAncestor(TaxID ancestor, TaxID child)
IsAncestor(t, ancestor, child) ==
    IF ancestor = child THEN TRUE
    ELSE IF ancestor = 0 \/ child = 0 THEN FALSE
    ELSE IF ~nodeExists(t, child) THEN FALSE
    ELSE IF ~nodeExists(t, ancestor) THEN FALSE
    ELSE lcaHelper(t, nodeId(t, child), nodeId(t, ancestor)) = nodeId(t, ancestor)

\* TaxID LCA(TaxID taxonA, TaxID taxonB)
LCA(t, taxonA, taxonB) ==
    IF ~nodeExists(t, taxonA) THEN taxonB
    ELSE IF ~nodeExists(t, taxonB) THEN taxonA
    ELSE Node(t, lcaHelper(t, nodeId(t, taxonA), nodeId(t, taxonB))).taxId

\* ------------------------------------------------------------ constructor
\* NcbiTaxonomy::NcbiTaxonomy: loadNodes, loadMerged, loadNames, the tour
\* from taxon 1, the sparse table.  `exit' is EXIT(EXIT_FAILURE).
Constructed(file, merged, names, g) ==
    LET s1 == loadNodes(file, g)
        s2 == IF s1.exit THEN s1 ELSE loadMerged(merged, s1)
        s3 == IF s2.exit THEN s2 ELSE loadNames(names, s2)
        t == s3.t
        maxNodes == Len(t.taxonNodes)
        noRoot == nodeIdExits(t, ROOT_TAXID)
        tour == elh(t, childrenOf(t), ROOT_TAXID, 0,
                    [E |-> <<>>, L |-> <<>>, H |-> Fill(maxNodes, 0)])
        depths == resize(tour.L, maxNodes * 2)
    IN  IF s3.exit \/ noRoot
        THEN [exit |-> TRUE, oob |-> s3.oob, t |-> t,
              E |-> <<>>, L |-> <<>>, H |-> <<>>, M |-> <<>>]
        ELSE [exit |-> FALSE, oob |-> s3.oob, t |-> t,
              E |-> resize(tour.E, maxNodes * 2), L |-> depths, H |-> tour.H,
              M |-> InitRangeMinimumQuery(depths, maxNodes)]

\* The object the queries read.
this ==
    [taxonNodes |-> taxonNodes, D |-> D, spill |-> spill, garbage |-> garbage,
     E |-> E, L |-> L, H |-> H, M |-> M]

NoCall == [op |-> "none", args |-> <<>>, val |-> 0]

NcbiTaxonomy ==
    /\ phase = "Uninitialized"
    /\ LET c == Constructed(nodesFile, mergedFile, namesFile, garbage) IN
        /\ phase' = IF c.exit THEN "Failed" ELSE "Indexed"
        /\ taxonNodes' = c.t.taxonNodes
        /\ D' = c.t.D
        /\ spill' = c.t.spill
        /\ oob' = c.oob
        /\ E' = c.E
        /\ L' = c.L
        /\ H' = c.H
        /\ M' = c.M
    /\ UNCHANGED <<nodesFile, mergedFile, namesFile, garbage, ret>>

\* ------------------------------------------------------------ the queries
Frame == UNCHANGED <<nodesFile, mergedFile, namesFile, garbage, phase,
                     taxonNodes, D, spill, E, L, H, M>>

\* A behaviour makes one call on the constructed object: every query leaves
\* the object as it is (Frame), so a second call would see what the first saw.
Ready == phase = "Indexed" /\ ret = NoCall

\* Ids a caller passes: those of the table, or also one id past its end.
TableIds == DOMAIN D

AnyIds == 0..(Max(DOMAIN D) + 1)

CallLCA(Ids) ==
    /\ Ready
    /\ \E a \in Ids, b \in Ids :
        /\ ret' = [op |-> "LCA", args |-> <<a, b>>, val |-> LCA(this, a, b)]
        /\ oob' = (oob \/ ~InTable(this, a)
                       \/ (nodeExists(this, a) /\ ~InTable(this, b)))
    /\ Frame

CallIsAncestor(Ids) ==
    /\ Ready
    /\ \E a \in Ids, b \in Ids :
        /\ ret' = [op |-> "IsAncestor", args |-> <<a, b>>,
                   val |-> IsAncestor(this, a, b)]
        /\ oob' = (oob \/ (a # b /\ a # 0 /\ b # 0 /\
                            (~InTable(this, b)
                             \/ (nodeExists(this, b) /\ ~InTable(this, a)))))
    /\ Frame

CallNodeExists(Ids) ==
    /\ Ready
    /\ \E a \in Ids :
        /\ ret' = [op |-> "nodeExists", args |-> <<a>>, val |-> nodeExists(this, a)]
        /\ oob' = (oob \/ ~InTable(this, a))
    /\ Frame

\* RangeMinimumQuery(i, j) for positions i <= j of the tour.
CallRangeMinimumQuery ==
    /\ Ready
    /\ \E i \in 0..(Len(L) - 1) : \E j \in i..(Len(L) - 1) :
        ret' = [op |-> "RangeMinimumQuery", args |-> <<i, j>>,
                val |-> RangeMinimumQuery(this, i, j)]
    /\ UNCHANGED oob
    /\ Frame

\* taxonNode(taxonId, fail): the record's internal index, NULL, or EXIT.
CallTaxonNode(Ids) ==
    /\ Ready
    /\ \E a \in Ids, fail \in BOOLEAN :
        /\ ret' = [op |-> "taxonNode", args |-> <<a, fail>>,
                   val |-> taxonNode(this, a, fail),
                   exit |-> taxonNodeExits(this, a, fail)]
        /\ oob' = (oob \/ (a # 0 /\ ~InTable(this, a)))
    /\ Frame

\* ------------------------------------------------------------- taxLineage
\* do { push_back(node); node = taxonNode(node->parentTaxId); }
\* while (node->parentTaxId != node->taxId);
\* The walk with the test before the move: while (node is not the root).
RECURSIVE lineageWalkMut(_, _, _)
lineageWalkMut(t, node, vec) ==
    IF Node(t, node).parentTaxId # Node(t, node).taxId
    THEN lineageWalkMut(t, taxonNode(t, Node(t, node).parentTaxId, TRUE),
                        Append(vec, node))
    ELSE Append(vec, node)

RECURSIVE lineageWalk(_, _, _)
lineageWalk(t, node, vec) ==
    LET next == taxonNode(t, Node(t, node).parentTaxId, TRUE) IN
    IF Node(t, next).parentTaxId # Node(t, next).taxId
    THEN lineageWalk(t, next, Append(vec, node))
    ELSE Append(vec, node)

\* The string is the tokens joined by ";": the sequence of tokens is what
\* splitting it by ";" gives back.  A token is the taxId (SSTR), or with
\* infoAsName the pair (rank, name) behind "<short rank>_<name>".
taxLineage(t, node, infoAsName) ==
    LET vec == lineageWalk(t, node, <<>>)
        n == Len(vec)
    IN  [k \in 1..n |->
            IF infoAsName
            THEN <<Node(t, vec[n + 1 - k]).rank, Node(t, vec[n + 1 - k]).name>>
            ELSE Node(t, vec[n + 1 - k]).taxId]

CallTaxLineage ==
    /\ Ready
    /\ \E i \in 0..(Len(taxonNodes) - 1), infoAsName \in BOOLEAN :
        ret' = [op |-> "taxLineage", args |-> <<Node(this, i).taxId, infoAsName>>,
                val |-> taxLineage(this, i, infoAsName)]
    /\ UNCHANGED oob
    /\ Frame

\* --------------------------------------------------------- getCladeCounts
\* The taxIds credited on the way up: while (taxon->parentTaxId !=
\* taxon->taxId && nodeExists(taxon->parentTaxId)) { taxon = parent; ... }
RECURSIVE cladeWalk(_, _, _)
cladeWalk(t, taxon, acc) ==
    LET n == Node(t, taxon) IN
    IF n.parentTaxId # n.taxId /\ nodeExists(t, n.parentTaxId)
    THEN LET up == taxonNode(t, n.parentTaxId, TRUE)
         IN  cladeWalk(t, up, Append(acc, Node(t, up).taxId))
    ELSE acc

cladeCredited(t, taxId) ==
    IF nodeExists(t, taxId) THEN cladeWalk(t, taxonNode(t, taxId, TRUE), <<>>)
    ELSE <<>>

RECURSIVE SumOver(_, _)
SumOver(S, f) ==
    IF S = {} THEN 0
    ELSE LET x == CHOOSE y \in S : TRUE IN f[x] + SumOver(S \ {x}, f)

\* taxonCounts: a function from external ids to counts (an unordered_map).
getCladeCounts(t, taxonCounts) ==
    LET ids == DOMAIN taxonCounts
        keys == ids \cup UNION {Range(cladeCredited(t, x)) : x \in ids}
        fromBelow(k) ==
            [x \in ids |-> IF k \in Range(cladeCredited(t, x))
                           THEN taxonCounts[x] ELSE 0]
        isChild(k) ==
            LET pick(n) == n.parentTaxId # n.taxId /\ n.taxId \in keys
                                /\ n.parentTaxId = k
                kids == SelectSeq(t.taxonNodes, pick)
            IN  [j \in 1..Len(kids) |-> kids[j].taxId]
    IN  [k \in keys |->
            [taxCount |-> IF k \in ids THEN taxonCounts[k] ELSE 0,
             cladeCount |-> (IF k \in ids THEN taxonCounts[k] ELSE 0)
                            + SumOver(ids, fromBelow(k)),
             children |-> isChild(k)]]

\* ---------------------------------------------------- weightedMajorityLCA
\* update that adds the weight and never marks a candidate.
updateMut(n, weightToAdd, childTaxonInput) ==
    [weight |-> n.weight + weightToAdd,
     isCandidate |-> n.isCandidate,
     childTaxon |-> childTaxonInput]

\* TaxNode::update
update(n, weightToAdd, childTaxonInput) ==
    [weight |-> n.weight + weightToAdd,
     isCandidate |-> n.isCandidate \/ n.childTaxon # childTaxonInput,
     childTaxon |-> childTaxonInput]

\* it = find(key); update, or emplace TaxNode(weight, isCandidate, child).
bump(counts, key, weight, isCandidate, child) ==
    IF key \in DOMAIN counts
    THEN [counts EXCEPT ![key] = update(@, weight, child)]
    ELSE [k \in DOMAIN counts \cup {key} |->
            IF k = key
            THEN [weight |-> weight, isCandidate |-> isCandidate, childTaxon |-> child]
            ELSE counts[k]]

\* while (currParentTaxId != currTaxId) { credit the parent; move up }
RECURSIVE creditAncestors(_, _, _, _, _)
creditAncestors(t, counts, currTaxId, currParentTaxId, currWeight) ==
    IF currParentTaxId = currTaxId THEN counts
    ELSE creditAncestors(t,
            bump(counts, currParentTaxId, currWeight, FALSE, currTaxId),
            currParentTaxId,
            Node(t, taxonNode(t, currParentTaxId, FALSE)).parentTaxId,
            currWeight)

\* The first loop (lines 531-570), one hit.
aggregateHit(t, a, hit) ==
    IF a.exit THEN a
    ELSE IF hit.taxon = 0 THEN [a EXCEPT !.unassignedSeqs = @ + 1]
    ELSE IF taxonNode(t, hit.taxon, FALSE) = NULL THEN [a EXCEPT !.exit = TRUE]
    ELSE LET node == taxonNode(t, hit.taxon, FALSE)
             own == bump(a.counts, hit.taxon, hit.weight, TRUE, 0)
         IN  [a EXCEPT !.totalAssignedSeqsWeights = @ + hit.weight,
                       !.assignedSeqs = @ + 1,
                       !.counts = creditAncestors(t, own, hit.taxon,
                                      Node(t, node).parentTaxId, hit.weight)]

RECURSIVE aggregate(_, _, _)
aggregate(t, a, setTaxa) ==
    IF setTaxa = <<>> THEN a
    ELSE aggregate(t, aggregateHit(t, a, setTaxa[1]), Tail(setTaxa))

\* The lineage rank index of a candidate (lines 585-600).
RECURSIVE lineageMinRank(_, _, _, _)
lineageMinRank(t, currTaxId, node, currParentTaxId) ==
    IF currParentTaxId = currTaxId THEN ROOT_RANK
    ELSE LET currRankInd == findRankIndex(Node(t, node).rank) IN
         IF currRankInd > 0 /\ currRankInd < ROOT_RANK THEN currRankInd
         ELSE LET up == taxonNode(t, currParentTaxId, FALSE)
              IN  lineageMinRank(t, currParentTaxId, up, Node(t, up).parentTaxId)

currMinRankOf(t, taxId) ==
    LET node == taxonNode(t, taxId, FALSE)
    IN  lineageMinRank(t, taxId, node, Node(t, node).parentTaxId)

\* float(weight) of line 582: the double rounded to the 24-bit significand
\* of a float, to nearest, ties to even.  Weights are whole numbers here:
\* below 2^24 the conversion is exact, above it the floats are 2^(e-23)
\* apart, e the exponent of the weight.
toFloat(w) ==
    IF w < Pow2(24) THEN w
    ELSE LET ulp == Pow2(flog2(w) - 23)
             q == w \div ulp
             r == w % ulp
         IN  IF 2 * r < ulp THEN q * ulp
             ELSE IF 2 * r > ulp THEN (q + 1) * ulp
             ELSE IF q % 2 = 0 THEN q * ulp
             ELSE (q + 1) * ulp

\* currPercent >= majorityCutoff, with currPercent = weight / total and the
\* cutoff in hundredths.  0 / 0 is NaN, which no comparison accepts.  For the
\* weights and cutoffs drawn here the quotient is never within rounding of
\* the cutoff unless it equals a cutoff that a float holds exactly.
\* weight * 100 >= cutoff * total, computed so that no product passes 2^31.
meetsCutoff(weight, total, cutoff) ==
    /\ total # 0
    /\ weight >= cutoff * (total \div 100) + (cutoff * (total % 100) + 99) \div 100

\* One step of the selection loop; selectedPercent is kept as the weight
\* whose quotient by the common total it is.
selectStep(t, sel, taxId, n, total, cutoff) ==
    IF ~n.isCandidate \/ ~meetsCutoff(toFloat(n.weight), total, cutoff) THEN sel
    ELSE LET currMinRank == currMinRankOf(t, taxId) IN
         IF currMinRank < sel.minRank
            \/ (currMinRank = sel.minRank /\ toFloat(n.weight) > sel.selectedWeight)
         THEN [selctedTaxon |-> taxId, minRank |-> currMinRank,
               selectedWeight |-> toFloat(n.weight)]
         ELSE sel

\* std::map iterates its keys in ascending order.
RECURSIVE selectLoop(_, _, _, _, _, _)
selectLoop(t, sel, keys, counts, total, cutoff) ==
    IF keys = {} THEN sel
    ELSE LET k == CHOOSE x \in keys : \A y \in keys : x <= y
         IN  selectLoop(t, selectStep(t, sel, k, counts[k], total, cutoff),
                        keys \ {k}, counts, total, cutoff)

\* Does the walk of lines 629-639 from this hit meet the selected taxon?
RECURSIVE agrees(_, _, _, _)
agrees(t, currTaxId, currParentTaxId, selctedTaxon) ==
    IF currParentTaxId = currTaxId THEN FALSE
    ELSE IF currTaxId = selctedTaxon THEN TRUE
    ELSE agrees(t, currParentTaxId,
                Node(t, taxonNode(t, currParentTaxId, FALSE)).parentTaxId,
                selctedTaxon)

hitAgrees(t, hit, selctedTaxon) ==
    /\ hit.taxon # 0
    /\ agrees(t, hit.taxon, Node(t, taxonNode(t, hit.taxon, FALSE)).parentTaxId,
              selctedTaxon)

weightedMajorityLCA(t, setTaxa, majorityCutoff) ==
    LET a == aggregate(t, [counts |-> <<>>, assignedSeqs |-> 0,
                           unassignedSeqs |-> 0, totalAssignedSeqsWeights |-> 0,
                           exit |-> FALSE], setTaxa)
        sel == selectLoop(t, [selctedTaxon |-> 0, minRank |-> ROOT_RANK,
                              selectedWeight |-> 0],
                          DOMAIN a.counts, a.counts,
                          a.totalAssignedSeqsWeights, majorityCutoff)
        agree == IF sel.selctedTaxon = ROOT_TAXID THEN a.assignedSeqs
                 ELSE IF sel.selctedTaxon = 0 THEN 0
                 ELSE Cardinality({i \in 1..Len(setTaxa) :
                                     hitAgrees(t, setTaxa[i], sel.selctedTaxon)})
    IN  IF a.exit THEN [exit |-> TRUE]
        ELSE [exit |-> FALSE, taxon |-> sel.selctedTaxon,
              assignedSeqs |-> a.assignedSeqs,
              unassignedSeqs |-> a.unassignedSeqs,
              seqsAgreeWithSelectedTaxon |-> agree,
              selectedWeight |-> sel.selectedWeight,
              totalWeight |-> a.totalAssignedSeqsWeights]

\* getCladeCounts over a map with at most MaxHits entries.
CountMaps(Ids) ==
    UNION {[S -> 1..2] : S \in {X \in SUBSET Ids : Cardinality(X) <= MaxHits}}

CallGetCladeCounts(Ids) ==
    /\ Ready
    /\ \E taxonCounts \in CountMaps(Ids) :
        /\ ret' = [op |-> "getCladeCounts", args |-> <<taxonCounts>>,
                   val |-> getCladeCounts(this, taxonCounts)]
        /\ oob' = (oob \/ \E x \in DOMAIN taxonCounts : ~InTable(this, x))
    /\ Frame

\* Cutoffs in hundredths.
Cutoffs == {0, 25, 50, 75, 100}

Weights == {0, 1, 2}

SeqsUpTo(S, n) == UNION {[1..k -> S] : k \in 0..n}

KnownIds == {x \in DOMAIN D : D[x] # -1}

HitLists == SeqsUpTo([taxon : KnownIds \cup {0}, weight : Weights], MaxHits)

CallWeightedMajorityLCA(Lists, Cuts) ==
    /\ Ready
    /\ \E setTaxa \in Lists, majorityCutoff \in Cuts :
        ret' = [op |-> "weightedMajorityLCA", args |-> <<setTaxa, majorityCutoff>>,
                val |-> weightedMajorityLCA(this, setTaxa, majorityCutoff)]
    /\ UNCHANGED oob
    /\ Frame

\* ------------------------------------------------------------- the inputs
\* A valid taxonomy on the ids S: one self-parent root, every parent in S,
\* every node reaches the root.
RECURSIVE Climbs(_, _, _)
Climbs(p, x, k) ==
    IF p[x] = x THEN TRUE ELSE IF k = 0 THEN FALSE ELSE Climbs(p, p[x], k - 1)

ValidParents(S) ==
    {p \in [S -> S] :
        /\ Cardinality({x \in S : p[x] = x}) = 1
        /\ \A x \in S : Climbs(p, x, Cardinality(S))}

Orders(S) ==
    {o \in [1..Cardinality(S) -> S] : \A i, j \in 1..Cardinality(S) :
                                          o[i] = o[j] => i = j}

Ascending(S) == {o \in Orders(S) : \A i \in 1..(Cardinality(S) - 1) : o[i] < o[i + 1]}

IdSets == (SUBSET (1..MaxTaxId)) \ {{}}

FileOf(o, p, r) ==
    [i \in 1..Len(o) |-> [taxId |-> o[i], parentTaxId |-> p[o[i]], rank |-> r[o[i]]]]

Unranked(S) == [x \in S |-> "no rank"]

\* Every valid taxonomy on ids of 1..MaxTaxId, its rows in every order.
AnyOrderFiles ==
    UNION {{FileOf(o, p, Unranked(S)) : o \in Orders(S), p \in ValidParents(S)} :
           S \in IdSets}

\* The same taxonomies with the rows in ascending id order.
SortedFiles ==
    UNION {{FileOf(o, p, Unranked(S)) : o \in Ascending(S), p \in ValidParents(S)} :
           S \in IdSets}

\* Taxonomies rooted at 1, rows ascending, every node with any rank.
RankedFiles ==
    UNION {{FileOf(o, p, r) : o \in Ascending(S),
                              p \in {q \in ValidParents(S) : q[1] = 1},
                              r \in [S -> RankNames]} :
           S \in {X \in IdSets : 1 \in X}}

\* The tree of the spec's scenarios: root 1; 2, 3 under 1; 4, 5 under 2; 6 under 3.
ExampleParents == <<1, 1, 1, 2, 2, 3>>

ExampleFile == FileOf(<<1, 2, 3, 4, 5, 6>>, ExampleParents, Unranked(1..6))

\* Its rows rotated: each of the six records comes first once.
ExampleRotations ==
    {FileOf([i \in 1..6 |-> ((i + k - 1) % 6) + 1], ExampleParents, Unranked(1..6)) :
        k \in 0..5}

MaxIdOf(file) == Max({0} \cup {file[i].taxId : i \in 1..Len(file)})

IdsOf(file) == {file[i].taxId : i \in 1..Len(file)}

\* Merged rows whose old id is no node: a hole of the table, or (past > 0)
\* an id beyond its end.
MergedRows(file, past) ==
    [old : (1..(MaxIdOf(file) + past)) \ IdsOf(file), new : 1..MaxIdOf(file)]

NameRows(file) ==
    [taxId : 1..MaxIdOf(file), name : {"a", "b"},
     class : {"scientific name", "synonym"}]

Blank ==
    /\ phase = "Uninitialized"
    /\ taxonNodes = <<>>
    /\ D = <<>>
    /\ spill = <<>>
    /\ oob = FALSE
    /\ E = <<>>
    /\ L = <<>>
    /\ H = <<>>
    /\ M = <<>>
    /\ ret = NoCall

\* ------------------------------------------------------ the specifications
\* Spec: every taxonomy in every row order, merged aliases in the holes of
\* the table, queries with ids of the table.
Init ==
    /\ nodesFile \in AnyOrderFiles \cup ExampleRotations
    /\ mergedFile \in SeqsUpTo(MergedRows(nodesFile, 0), MaxMerged)
    /\ namesFile = <<>>
    /\ garbage = -1
    /\ Blank

Next ==
    \/ NcbiTaxonomy
    \/ CallLCA(TableIds)
    \/ CallIsAncestor(TableIds)
    \/ CallNodeExists(TableIds)
    \/ CallTaxonNode(TableIds)
    \/ CallTaxLineage

Spec == Init /\ [][Next]_vars

\* SpecOob: merged rows and queries may also name the id just past the end
\* of the table; what lies there is either of two values.
InitOob ==
    /\ nodesFile \in SortedFiles \cup {ExampleFile}
    /\ mergedFile \in SeqsUpTo(MergedRows(nodesFile, 1), MaxMerged)
    /\ namesFile = <<>>
    /\ garbage \in {-1, 0}
    /\ Blank

NextOob ==
    \/ NcbiTaxonomy
    \/ CallLCA(AnyIds)
    \/ CallNodeExists(AnyIds)
    \/ CallTaxonNode(AnyIds)

SpecOob == InitOob /\ [][NextOob]_vars

\* SpecClade: getCladeCounts over maps of ids of the table.
InitClade ==
    /\ nodesFile \in SortedFiles \cup {ExampleFile}
    /\ mergedFile \in SeqsUpTo(MergedRows(nodesFile, 0), MaxMerged)
    /\ namesFile = <<>>
    /\ garbage = -1
    /\ Blank

NextClade ==
    \/ NcbiTaxonomy
    \/ CallGetCladeCounts(TableIds)

SpecClade == InitClade /\ [][NextClade]_vars

\* SpecWM: taxonomies rooted at 1 whose nodes carry any ranks, merged
\* aliases in the holes of the table, hit lists over the known ids and 0.
InitWM ==
    /\ nodesFile \in RankedFiles
    /\ mergedFile \in SeqsUpTo(MergedRows(nodesFile, 0), MaxMerged)
    /\ namesFile = <<>>
    /\ garbage = -1
    /\ Blank

NextWM ==
    \/ NcbiTaxonomy
    \/ CallWeightedMajorityLCA(HitLists, Cutoffs)

SpecWM == InitWM /\ [][NextWM]_vars

\* ---------------------------------------------------- the walks, stepwise
\* The upward loops of AllRanks (lines 386-397; AtRanks calls it, line 290),
\* taxLineage (344-347), getCladeCounts (436-440) and weightedMajorityLCA
\* (558-569, 589-600, 631-639), one iteration per step.  A walk is
\* [kind, cur, node, iter]: the id walked from, the index of the record the
\* loop holds, the iterations made.
WalkKinds == {"AllRanks", "taxLineage", "getCladeCounts", "weightedMajorityLCA"}

\* AllRanks and taxLineage take a record; the other two an id of the input,
\* which may be a merged alias.
walkBegin(t, kind, taxId) ==
    [kind |-> kind, cur |-> taxId, node |-> nodeId(t, taxId), iter |-> 0]

\* The loop's exit test.
walkDone(t, w) ==
    LET n == Node(t, w.node) IN
    CASE w.kind = "AllRanks" -> n.taxId = 1
      [] w.kind = "taxLineage" -> w.iter >= 1 /\ n.parentTaxId = n.taxId
      [] w.kind = "getCladeCounts" ->
            ~(n.parentTaxId # n.taxId /\ nodeExists(t, n.parentTaxId))
      [] w.kind = "weightedMajorityLCA" -> n.parentTaxId = w.cur

\* node = taxonNode(node->parentTaxId)
walkStep(t, w) ==
    LET n == Node(t, w.node) IN
    [w EXCEPT !.cur = n.parentTaxId,
              !.node = nodeId(t, n.parentTaxId),
              !.iter = w.iter + 1]

BeginWalk ==
    /\ Ready
    /\ \E kind \in WalkKinds :
       \E a \in IF kind \in {"AllRanks", "taxLineage"}
                THEN {taxonNodes[i].taxId : i \in 1..Len(taxonNodes)}
                ELSE KnownIds :
          ret' = [op |-> "walk", args |-> <<kind, a>>,
                  val |-> walkBegin(this, kind, a)]
    /\ UNCHANGED oob
    /\ Frame

\* One iteration.  A loop that has made more iterations than there are
\* records has held one record twice and, its next record being a function
\* of the one it holds, never leaves: the step is not taken further.
StepWalk ==
    /\ phase = "Indexed"
    /\ ret.op = "walk"
    /\ ~walkDone(this, ret.val)
    /\ ret.val.iter <= Len(taxonNodes)
    /\ ret' = [ret EXCEPT !.val = walkStep(this, ret.val)]
    /\ UNCHANGED oob
    /\ Frame

\* SpecWalk: every valid taxonomy, whatever its root's id, with merged
\* aliases in the holes of the table; one walk, step by step.
InitWalk ==
    /\ nodesFile \in SortedFiles \cup {ExampleFile}
    /\ mergedFile \in SeqsUpTo(MergedRows(nodesFile, 0), MaxMerged)
    /\ namesFile = <<>>
    /\ garbage = -1
    /\ Blank

NextWalk ==
    \/ NcbiTaxonomy
    \/ BeginWalk
    \/ StepWalk

SpecWalk == InitWalk /\ [][NextWalk]_vars

\* SpecSelect: the selection over hit lists whose weights are floats, small
\* and large: 1 and 2^24, past which a float no longer holds every whole
\* number.
FloatWeights == {1, Pow2(24)}

FloatHitLists ==
    SeqsUpTo([taxon : KnownIds \cup {0}, weight : FloatWeights], MaxHits)

NextSelect ==
    \/ NcbiTaxonomy
    \/ CallWeightedMajorityLCA(FloatHitLists, Cutoffs)

SpecSelect == InitWM /\ [][NextSelect]_vars

\* SpecTour: construction in any row order, then one query of the sparse
\* table.
InitTour ==
    /\ nodesFile \in AnyOrderFiles \cup ExampleRotations
    /\ mergedFile = <<>>
    /\ namesFile = <<>>
    /\ garbage = -1
    /\ Blank

NextTour ==
    \/ NcbiTaxonomy
    \/ CallRangeMinimumQuery

SpecTour == InitTour /\ [][NextTour]_vars

\* SpecScenario: the tree of the spec's scenarios, its six taxa with any
\* ranks, and the hits (4, 1), (5, 1), (6, 1) of scenario 5.
ScenarioFiles ==
    {FileOf(<<1, 2, 3, 4, 5, 6>>, ExampleParents, r) : r \in [1..6 -> RankNames]}

ScenarioHits ==
    <<[taxon |-> 4, weight |-> 1], [taxon |-> 5, weight |-> 1],
      [taxon |-> 6, weight |-> 1]>>

ScenarioCutoffs == {34, 66, 67}

InitScenario ==
    /\ nodesFile \in ScenarioFiles
    /\ mergedFile = <<>>
    /\ namesFile = <<>>
    /\ garbage = -1
    /\ Blank

NextScenario ==
    \/ NcbiTaxonomy
    \/ CallWeightedMajorityLCA({ScenarioHits}, ScenarioCutoffs)

SpecScenario == InitScenario /\ [][NextScenario]_vars

\* SpecNames: root 1 with one child 3, so that 2 is a hole of the table a
\* merged row may fill; names rows for the ids 1..3.
NamesNodes ==
    <<[taxId |-> 1, parentTaxId |-> 1, rank |-> "no rank"],
      [taxId |-> 3, parentTaxId |-> 1, rank |-> "no rank"]>>

InitNames ==
    /\ nodesFile = NamesNodes
    /\ mergedFile \in SeqsUpTo(MergedRows(nodesFile, 0), MaxMerged)
    /\ namesFile \in SeqsUpTo(NameRows(nodesFile), MaxNames)
    /\ garbage = -1
    /\ Blank

NextNames ==
    \/ NcbiTaxonomy
    \/ CallTaxonNode(TableIds)

SpecNames == InitNames /\ [][NextNames]_vars

\* ------------------------------------------------- reference definitions
\* The tree as the nodes input states it, walked by parent links.
LiveIds == IdsOf(nodesFile)

RefParent(x) ==
    nodesFile[CHOOSE i \in 1..Len(nodesFile) : nodesFile[i].taxId = x].parentTaxId

\* The path from the root down to x.
RECURSIVE RefPath(_)
RefPath(x) ==
    IF RefParent(x) = x THEN <<x>> ELSE Append(RefPath(RefParent(x)), x)

RefAncestors(x) == Range(RefPath(x))

RefDepth(x) == Len(RefPath(x)) - 1

RefLCA(a, b) ==
    CHOOSE c \in RefAncestors(a) \cap RefAncestors(b) :
        \A d \in RefAncestors(a) \cap RefAncestors(b) : RefDepth(d) <= RefDepth(c)

\* The live id a known id (a node or a merged alias) stands for.
Resolve(x) == Node(this, D[x]).taxId

\* ----------------------------------------------------------------- claims
\* C1: for every valid taxonomy loaded in any row order and every pair of
\* live ids a, b, LCA(a, b) is the deepest common ancestor-or-self of a and b
\* as the parent links give it.
C1_LcaIsDeepestCommonAncestor ==
    (ret.op = "LCA" /\ ret.args[1] \in LiveIds /\ ret.args[2] \in LiveIds)
        => ret.val = RefLCA(ret.args[1], ret.args[2])

\* C2: associativity: for all known ids a, b, c in any row order,
\* LCA(LCA(a, b), c) = LCA(a, LCA(b, c)).  The call made is LCA(x, c) with
\* x = LCA(a, b).
C2_LcaAssociative ==
    (ret.op = "LCA" /\ ret.args[1] \in KnownIds /\ ret.args[2] \in KnownIds)
        => \A a \in KnownIds, b \in KnownIds :
              LCA(this, a, b) = ret.args[1]
                  => ret.val = LCA(this, a, LCA(this, b, ret.args[2]))

C6_LineageFromRoot ==
    (ret.op = "taxLineage" /\ ret.args[2] = FALSE)
        => ret.val = RefPath(ret.args[1])

\* C6 amended: taxLineage(a, false) is the ids on the path from the root to
\* a without the root, and the root's id alone when a is the root; its last
\* token is a's id.
C6_LineageBelowRoot ==
    (ret.op = "taxLineage" /\ ret.args[2] = FALSE)
        => /\ ret.val = IF RefParent(ret.args[1]) = ret.args[1]
                        THEN <<ret.args[1]>>
                        ELSE Tail(RefPath(ret.args[1]))
           /\ ret.val[Len(ret.val)] = ret.args[1]

\* C6 witness: a lineage of two tokens or more (a node two levels or more
\* below the root).
C6_Witness ==
    /\ ret.op = "taxLineage"
    /\ ret.args[2] = FALSE
    /\ Len(ret.val) >= 2

\* A merged row installs an alias when its new id is a node.
IsAlias(x) ==
    \E i \in 1..Len(mergedFile) :
        mergedFile[i].old = x /\ mergedFile[i].new \in LiveIds

\* C4: after construction, for every row (old, new) of the merged input,
\* taxonNode(old) and taxonNode(new) (lenient) are the same record, also
\* when old is larger than every id of the nodes input, and nothing was
\* accessed outside the external-id table.
C4_MergedAliasInTable ==
    phase = "Indexed"
        => /\ ~oob
           /\ \A i \in 1..Len(mergedFile) :
                 taxonNode(this, mergedFile[i].old, FALSE)
                     = taxonNode(this, mergedFile[i].new, FALSE)

\* C5: for an id a that is neither a node nor a merged alias (ids past the
\* largest id of the nodes input included) and a known id b, the lookup of
\* a reads nothing outside the table and LCA(a, b) = b.
C5_UnknownDegeneracy ==
    (/\ ret.op = "LCA"
     /\ ret.args[1] \notin LiveIds
     /\ ~IsAlias(ret.args[1])
     /\ (ret.args[2] \in LiveIds \/ IsAlias(ret.args[2])))
        => (~oob /\ ret.val = ret.args[2])

RootId == CHOOSE x \in LiveIds : RefParent(x) = x

CountOf(f) == SumOver(DOMAIN f, f)

\* C7: the taxCounts of the output sum to the input counts, and the root's
\* cladeCount is the sum of the input counts of the known ids (live ids and
\* merged aliases).
C7_CladeConservation ==
    ret.op = "getCladeCounts"
        => LET in == ret.args[1]
               out == ret.val
               known == DOMAIN in \cap KnownIds
           IN  /\ SumOver(DOMAIN out, [k \in DOMAIN out |-> out[k].taxCount])
                      = CountOf(in)
               /\ (IF RootId \in DOMAIN out THEN out[RootId].cladeCount ELSE 0)
                      = SumOver(known, [k \in known |-> in[k]])

\* s2 is more specific than s1: s1 is unassigned and s2 is not, or s2 is a
\* proper descendant of s1, or s2 has the smaller lineage rank index.
MoreSpecific(s2, s1) ==
    /\ s2 # 0
    /\ \/ s1 = 0
       \/ /\ Resolve(s1) # Resolve(s2)
          /\ Resolve(s1) \in RefAncestors(Resolve(s2))
       \/ currMinRankOf(this, s2) < currMinRankOf(this, s1)

\* C8: weighted monotonicity: for every hit list with non-negative weights
\* and cutoffs c1 < c2, the taxon selected at c2 is not more specific than
\* the one selected at c1.  The call made is the one at c1.
C8_WeightedMonotone ==
    (ret.op = "weightedMajorityLCA" /\ ~ret.val.exit)
        => \A c2 \in Cutoffs :
              c2 > ret.args[2]
                  => ~MoreSpecific(weightedMajorityLCA(this, ret.args[1], c2).taxon,
                                   ret.val.taxon)

RankOf(x) == nodesFile[CHOOSE i \in 1..Len(nodesFile) : nodesFile[i].taxId = x].rank

\* C9 as stated: with the hits (4, 1), (5, 1), (6, 1) on the scenario tree
\* the result is taxon 1 at cutoff 0.66 and taxon 2 at cutoff 0.34, whatever
\* the ranks.
C9_ScenarioAsStated ==
    ret.op = "weightedMajorityLCA"
        => /\ ret.args[2] = 66 => ret.val.taxon = 1
           /\ ret.args[2] = 34 => ret.val.taxon = 2

\* C9 amended: taxon 2 holds 2/3 of the weight, which meets 0.66 as it meets
\* 0.34: at both cutoffs the result is taxon 2 when taxon 2 carries a rank
\* of the canonical vocabulary and taxon 1 when it does not; at a cutoff
\* above 2/3 (0.67) the result is taxon 1 whatever the ranks.
C9_ScenarioTwoThirds ==
    ret.op = "weightedMajorityLCA"
        => /\ ret.args[2] \in {34, 66}
                => ret.val.taxon = IF findRankIndex(RankOf(2)) > 0 THEN 2 ELSE 1
           /\ ret.args[2] = 67 => ret.val.taxon = 1

\* C9 witness: taxon 2 selected at cutoff 0.66.
C9_Witness ==
    /\ ret.op = "weightedMajorityLCA"
    /\ ret.args[1] = ScenarioHits
    /\ ret.args[2] = 66
    /\ ret.val.taxon = 2

\* The scientific-name rows whose id resolves to internal index i.
RetainedFor(i) ==
    SelectSeq(namesFile, LAMBDA row : IsScientific(row) /\ D[row.taxId] = i)

\* C10 as stated: the name stored for an id is the name of the first
\* retained (scientific-name) row for it; later rows leave it unchanged.
C10_FirstNameWins ==
    phase = "Indexed"
        => \A i \in 0..(Len(taxonNodes) - 1) :
              RetainedFor(i) # <<>> => Node(this, i).name = RetainedFor(i)[1].name

\* C10 amended: the name stored for a node is the name of the last retained
\* (scientific-name) row whose id is the node's id or a merged alias of it
\* (within the table):
\* every later scientific-name row overwrites the stored name; with no such
\* row the name is empty.
C10_LastNameWins ==
    phase = "Indexed"
        => \A i \in 0..(Len(taxonNodes) - 1) :
              Node(this, i).name =
                  IF RetainedFor(i) = <<>> THEN ""
                  ELSE RetainedFor(i)[Len(RetainedFor(i))].name

\* C10 witness: two retained rows with different names for one node.
C10_Witness ==
    /\ phase = "Indexed"
    /\ \E i \in 0..(Len(taxonNodes) - 1) :
          /\ Len(RetainedFor(i)) >= 2
          /\ RetainedFor(i)[1].name # RetainedFor(i)[2].name

\* Positions lo..hi of the tour, and the least depth stored in them.
MinDepth(lo, hi) ==
    CHOOSE d \in {L[p + 1] : p \in lo..hi} : \A p \in lo..hi : d <= L[p + 1]

\* C12 as stated: after construction of a valid tree with N taxa the tour
\* has 2N positions, starts and ends at the root, and at every position i
\* of 0..2N-1 the depth L[i] is the tree depth of the node E[i].
C12_TourDepthsEverywhere ==
    phase = "Indexed"
        => LET N == Len(taxonNodes) IN
           /\ Len(E) = 2 * N /\ Len(L) = 2 * N
           /\ Node(this, E[1]).taxId = RootId
           /\ Node(this, E[2 * N]).taxId = RootId
           /\ \A i \in 0..(2 * N - 1) :
                 L[i + 1] = RefDepth(Node(this, E[i + 1]).taxId)

\* C12 amended: after construction of a valid tree with N taxa whose root is
\* taxon 1, the tour has 2N positions, starts and ends at the root, at every
\* position i of 0..2N-2 the depth L[i] is the tree depth of the node E[i],
\* and the last position holds the depth -1 (one less than the root's).
C12_TourDepthsButLast ==
    (phase = "Indexed" /\ RootId = ROOT_TAXID)
        => LET N == Len(taxonNodes) IN
           /\ Len(E) = 2 * N /\ Len(L) = 2 * N
           /\ Node(this, E[1]).taxId = RootId
           /\ Node(this, E[2 * N]).taxId = RootId
           /\ \A i \in 0..(2 * N - 2) :
                 L[i + 1] = RefDepth(Node(this, E[i + 1]).taxId)
           /\ L[2 * N] = -1

\* C12 witness: a constructed tree of three taxa or more, two levels deep,
\* whose first row is not the root.
C12_Witness ==
    /\ phase = "Indexed"
    /\ RootId = ROOT_TAXID
    /\ Len(taxonNodes) >= 3
    /\ taxonNodes[1].taxId # RootId
    /\ \E i \in 1..Len(L) : L[i] = 2

\* C13 as stated: RangeMinimumQuery(l, r) is the smallest position of
\* l..r whose depth is the least depth of l..r.
C13_RmqSmallestPosition ==
    ret.op = "RangeMinimumQuery"
        => LET l == ret.args[1]
               r == ret.args[2]
           IN  /\ ret.val \in l..r
               /\ L[ret.val + 1] = MinDepth(l, r)
               /\ \A p \in l..(ret.val - 1) : L[p + 1] > MinDepth(l, r)

\* C13 amended: RangeMinimumQuery(l, r) is a position of l..r whose depth
\* is the least depth of l..r; among several such positions it need not be
\* the smallest, and on the tour of a tree rooted at taxon 1 all of them
\* hold the same node.
C13_RmqSomeMinimum ==
    ret.op = "RangeMinimumQuery"
        => LET l == ret.args[1]
               r == ret.args[2]
           IN  /\ ret.val \in l..r
               /\ L[ret.val + 1] = MinDepth(l, r)
               /\ RootId = ROOT_TAXID
                    => \A p \in l..r :
                          L[p + 1] = MinDepth(l, r) => E[p + 1] = E[ret.val + 1]

\* C13 witness: a query whose range holds its least depth twice, answered
\* with the later position.
C13_Witness ==
    /\ ret.op = "RangeMinimumQuery"
    /\ \E p \in ret.args[1]..(ret.val - 1) : L[p + 1] = L[ret.val + 1]

\* C11: on every Store that construction accepts, whatever the id of its
\* root, every upward walk of AllRanks (and AtRanks through it), taxLineage,
\* getCladeCounts and weightedMajorityLCA terminates: it stops at the
\* self-parent root, so it never makes more iterations than the Store has
\* records.
C11_WalksTerminate ==
    ret.op = "walk" => ret.val.iter <= Len(taxonNodes)

\* The same for the walks other than AllRanks.
C11_OtherWalksTerminate ==
    (ret.op = "walk" /\ ret.val.kind # "AllRanks")
        => ret.val.iter <= Len(taxonNodes)

\* The ids a hit adds its weight to, root first: the hit's id and the
\* ancestors of its record; for a merged alias, the alias and the proper
\* ancestors of the record it names (the root when it names the root).
HitPath(x) ==
    IF x \in LiveIds THEN RefPath(x)
    ELSE IF RefParent(Resolve(x)) = Resolve(x) THEN <<Resolve(x), x>>
    ELSE Append(RefPath(RefParent(Resolve(x))), x)

\* The indices of the hits of setTaxa that reach id x.
HitsThrough(setTaxa, x) ==
    {i \in 1..Len(setTaxa) :
        setTaxa[i].taxon # 0 /\ x \in Range(HitPath(setTaxa[i].taxon))}

\* accumulated_weight of x.
RefWeight(setTaxa, x) ==
    SumOver(HitsThrough(setTaxa, x),
            [i \in HitsThrough(setTaxa, x) |-> setTaxa[i].weight])

\* The child ids through which weight reached x.
RefChildIds(setTaxa, x) ==
    UNION {{HitPath(setTaxa[i].taxon)[k + 1] :
               k \in {j \in 1..(Len(HitPath(setTaxa[i].taxon)) - 1) :
                         HitPath(setTaxa[i].taxon)[j] = x}} :
           i \in HitsThrough(setTaxa, x)}

\* x is a candidate: itself a hit, or reached through two distinct child ids.
RefCandidate(setTaxa, x) ==
    \/ \E i \in 1..Len(setTaxa) : setTaxa[i].taxon = x /\ x # 0
    \/ Cardinality(RefChildIds(setTaxa, x)) >= 2

\* The candidates whose accumulated weight over the total meets the cutoff.
RefQualified(setTaxa, cutoff) ==
    LET nz == {i \in 1..Len(setTaxa) : setTaxa[i].taxon # 0}
        total == SumOver(nz, [i \in nz |-> setTaxa[i].weight])
    IN  {x \in KnownIds :
            /\ HitsThrough(setTaxa, x) # {}
            /\ RefCandidate(setTaxa, x)
            /\ meetsCutoff(RefWeight(setTaxa, x), total, cutoff)}

\* C14: for every hit list with positive weights the result is 0 if no
\* candidate has accumulated weight / total weight >= cutoff; otherwise it
\* is a candidate meeting the cutoff such that no other such candidate has a
\* smaller lineage rank index, nor the same index and a larger coverage
\* fraction; a candidate is a hit or a taxon reached through two distinct
\* child ids.
C14_SelectionRule ==
    (/\ ret.op = "weightedMajorityLCA"
     /\ ~ret.val.exit
     /\ \A i \in 1..Len(ret.args[1]) : ret.args[1][i].weight > 0)
        => LET setTaxa == ret.args[1]
               Q == RefQualified(setTaxa, ret.args[2])
               s == ret.val.taxon
           IN  IF Q = {} THEN s = 0
               ELSE /\ s \in Q
                    /\ \A y \in Q :
                          /\ currMinRankOf(this, y) >= currMinRankOf(this, s)
                          /\ currMinRankOf(this, y) = currMinRankOf(this, s)
                                => RefWeight(setTaxa, y) <= RefWeight(setTaxa, s)

\* The hits of setTaxa whose lineage (the taxon the hit names and all its
\* ancestors) contains the taxon that id sel names.
AgreeingHits(setTaxa, sel) ==
    {i \in 1..Len(setTaxa) :
        /\ setTaxa[i].taxon # 0
        /\ Resolve(sel) \in RefAncestors(Resolve(setTaxa[i].taxon))}

\* C15: for every hit list of known ids (live ids or merged aliases) and 0
\* entries: assigned + unassigned is the number of hits; agreeing is the
\* number of non-zero hits whose lineage contains the selected taxon; it
\* equals assigned when the root is selected and is 0 when nothing is
\* selected.
C15_ReportingCounts ==
    (ret.op = "weightedMajorityLCA" /\ ~ret.val.exit)
        => LET setTaxa == ret.args[1]
               r == ret.val
           IN  /\ r.assignedSeqs + r.unassignedSeqs = Len(setTaxa)
               /\ IF r.taxon = 0 THEN r.seqsAgreeWithSelectedTaxon = 0
                  ELSE /\ r.seqsAgreeWithSelectedTaxon
                            = Cardinality(AgreeingHits(setTaxa, r.taxon))
                       /\ Resolve(r.taxon) = RootId
                            => r.seqsAgreeWithSelectedTaxon = r.assignedSeqs

====
